---------------------------- MODULE Spec2Model ----------------------------
(***************************************************************************)
(* URL shortener: src/lambda_function.py.                                  *)
(*                                                                         *)
(* One Lambda invocation handles one HTTP request: lambda_handler routes   *)
(* it by (method, path) to handle_shorten_request (POST /shorten, the      *)
(* generate / conditional put_item retry loop) or handle_redirect_request  *)
(* (GET /<short_id>, one get_item).  Invocations run concurrently and      *)
(* share only the DynamoDB table; every store call is one atomic step.     *)
(*                                                                         *)
(* Representation.  Paths and short ids are sequences of one-character     *)
(* strings, so that startswith / lstrip / length are computed.  Request    *)
(* bodies, URLs, messages and response bodies are strings.  The Python     *)
(* object None is the reserved token None, equal to no string the model    *)
(* feeds in.  A Python dict is a function whose DOMAIN is its key set.     *)
(***************************************************************************)
EXTENDS Naturals, Sequences, FiniteSets, TLC

(***************************************************************************)
(* Bounds of the model.                                                    *)
(***************************************************************************)
\* concurrent invocations, each handling one request
NumInvocations == 2
\* random.choice draws among the first MaxChars entries of `characters` ...
MaxChars == 2
\* ... at the last position of an id; the other positions draw characters[1]

Invocations == 1 .. NumInvocations

(***************************************************************************)
(* Python values.                                                          *)
(***************************************************************************)
None == "None"

EmptyDict == <<>>

\* dict.get(key, default)
DictGet(d, key, default) == IF key \in DOMAIN d THEN d[key] ELSE default

\* Truthiness of the values body.get('url') takes here: None and '' are falsy
Truthy(v) == v # None /\ v # ""

\* str.startswith('/')
startswith_slash(path) == Len(path) >= 1 /\ path[1] = "/"

\* str.lstrip('/'): removes every leading '/'
RECURSIVE lstrip_slash(_)
lstrip_slash(path) ==
  IF path # <<>> /\ Head(path) = "/" THEN lstrip_slash(Tail(path)) ELSE path

\* ''.join(seq of characters)
RECURSIVE join(_)
join(s) == IF s = <<>> THEN "" ELSE Head(s) \o join(Tail(s))

\* The escaping json.dumps applies inside a string.  Only the one message
\* with double quotes needs any; every other string of the model is free of
\* quotes, backslashes and control characters and is left as it is.
json_escape(s) ==
  IF s = "Missing \"url\" in request body."
  THEN "Missing \\\"url\\\" in request body."
  ELSE s

\* json.dumps({'message': m})
json_dumps_message(m) == "{\"message\": \"" \o json_escape(m) \o "\"}"

\* json.dumps({'short_id': s, 'short_url': u})
json_dumps_short(s, u) ==
  "{\"short_id\": \"" \o json_escape(s) \o "\", \"short_url\": \""
    \o json_escape(u) \o "\"}"

(***************************************************************************)
(* Module-level configuration, lines 18-24.                                *)
(***************************************************************************)
BASE_URL == "https://example.com"

\* '/shorten'
SHORTEN_PATH == <<"/", "s", "h", "o", "r", "t", "e", "n">>

(***************************************************************************)
(* generate_short_id, lines 26-29.                                         *)
(***************************************************************************)
\* string.ascii_letters + string.digits
characters ==
  << "a", "b", "c", "d", "e", "f", "g", "h", "i", "j", "k", "l", "m",
     "n", "o", "p", "q", "r", "s", "t", "u", "v", "w", "x", "y", "z",
     "A", "B", "C", "D", "E", "F", "G", "H", "I", "J", "K", "L", "M",
     "N", "O", "P", "Q", "R", "S", "T", "U", "V", "W", "X", "Y", "Z",
     "0", "1", "2", "3", "4", "5", "6", "7", "8", "9" >>

\* the default of generate_short_id's parameter
DEFAULT_LENGTH == 6

\* every value generate_short_id(length) may return: `length` draws of
\* random.choice(characters), joined; the last draw ranges over the first
\* MaxChars characters, the others are characters[1]
generate_short_id(length) ==
  { [i \in 1 .. length |-> IF i = length THEN characters[k] ELSE characters[1]] :
      k \in 1 .. MaxChars }


(***************************************************************************)
(* Exceptions and responses.                                               *)
(***************************************************************************)
Exc(type, message) == [type |-> type, message |-> message]

\* botocore ClientError: e.response['Error'] holds Code and Message
ClientError(code, message) ==
  [type |-> "ClientError", message |-> message,
   response |-> [Error |-> [Code |-> code, Message |-> message]]]

\* isinstance(exc, cls) for the classes the except clauses name; every
\* exception raised here derives from Exception
IsInstance(exc, cls) == cls = "Exception" \/ exc.type = cls

\* the dict a handler returns
Response(statusCode, headers, body) ==
  [statusCode |-> statusCode, headers |-> headers, body |-> body]

\* an exception that leaves lambda_handler: no response dict is returned
Escapes(exc) == [raised |-> exc.type]

NoResponse == <<>>

JSON_HEADERS == "Content-Type" :> "application/json"

\* lines 106-111, 152-155, 164-167
CORS_HEADERS ==
  ("Access-Control-Allow-Origin" :> "*")
    @@ ("Access-Control-Allow-Methods" :> "POST, GET")
    @@ ("Access-Control-Allow-Headers" :> "Content-Type")

\* lines 176-179 and 188-191: the last key is spelt 'Access-Allow-Headers'
REDIRECT_ERROR_HEADERS ==
  ("Content-Type" :> "application/json")
    @@ ("Access-Control-Allow-Origin" :> "*")
    @@ ("Access-Control-Allow-Methods" :> "POST, GET")
    @@ ("Access-Allow-Headers" :> "Content-Type")

(***************************************************************************)
(* Requests.                                                               *)
(***************************************************************************)
URL_A == "https://example.org/page"

URL_B == "https://example.org/other"

Urls == {URL_A, URL_B}

\* the text of a JSON object with the single field url
UrlBody(u) == "{\"url\": \"" \o u \o "\"}"

BODY_EMPTY_OBJECT == "{}"

BODY_OTHER_FIELD == "{\"link\": \"https://example.org/page\"}"

BODY_LIST == "[1]"

BODY_TRUNCATED == "{\"url\": "

\* json.loads(text): the parsed value, or the exception raised
json_loads(text) ==
  IF text = None
  THEN [raise |-> Exc("TypeError",
          "the JSON object must be str, bytes or bytearray, not NoneType")]
  ELSE IF \E u \in Urls \cup {""} : text = UrlBody(u)
  THEN [value |-> [type |-> "dict",
          items |-> [url |-> CHOOSE u \in Urls \cup {""} : text = UrlBody(u)]]]
  ELSE IF text = BODY_OTHER_FIELD
  THEN [value |-> [type |-> "dict", items |-> [link |-> URL_A]]]
  ELSE IF text = BODY_EMPTY_OBJECT
  THEN [value |-> [type |-> "dict", items |-> EmptyDict]]
  ELSE IF text = BODY_LIST
  THEN [value |-> [type |-> "list"]]
  ELSE [raise |-> Exc("JSONDecodeError", "Expecting value")]

\* an event dict: each argument is <<>> (key absent) or <<value>>
Event(method, rawPath, body) ==
  (IF method = <<>> THEN EmptyDict
   ELSE "requestContext" :> [http |-> [method |-> method[1]]])
    @@ (IF rawPath = <<>> THEN EmptyDict ELSE "rawPath" :> rawPath[1])
    @@ (IF body = <<>> THEN EmptyDict ELSE "body" :> body[1])

\* every short id the generator can produce here
ShortIds == generate_short_id(DEFAULT_LENGTH)

\* request bodies: key absent, null, invalid JSON, JSON that is no object,
\* objects without a url or with an empty one, objects with a url
BodyInputs ==
  { <<>>, <<None>>, <<"">>, <<BODY_TRUNCATED>>, <<BODY_LIST>>,
    <<BODY_EMPTY_OBJECT>>, <<BODY_OTHER_FIELD>>, <<UrlBody("")>> }
    \cup { <<UrlBody(u)>> : u \in Urls }

\* request paths: key absent, no leading slash, '/', '//', '/<id>' for
\* every id and '//<id>' for one
PathInputs ==
  { <<>>, << <<"x">> >>, << <<"/">> >>, << <<"/", "/">> >> }
    \cup { << <<"/">> \o s >> : s \in ShortIds }
    \cup { << <<"/", "/">> \o [i \in 1 .. DEFAULT_LENGTH |-> characters[1]] >> }

\* the events delivered to lambda_handler
Events ==
  { Event(<<"POST">>, <<SHORTEN_PATH>>, b) : b \in BodyInputs }
    \cup { Event(<<"GET">>, p, <<>>) : p \in PathInputs }
    \cup { Event(m, <<SHORTEN_PATH>>, <<UrlBody(URL_A)>>) :
             m \in {<<>>, <<"PUT">>} }
    \cup { Event(<<"POST">>, p, <<UrlBody(URL_A)>>) :
             p \in {<<>>, << <<"/">> >>} }
    \cup { EmptyDict }


(***************************************************************************)
(* State.                                                                  *)
(***************************************************************************)
VARIABLES
  table,     \* the DynamoDB table: short_id -> Item {short_id, long_url}
  pc,        \* per invocation: where its handler stands
  event,     \* per invocation: the event it was given
  handler,   \* per invocation: the function that takes the request on
  long_url,  \* per invocation: handle_shorten_request's long_url
  short_id,  \* per invocation: the candidate, or the id looked up
  attempt,   \* per invocation: iterations of the retry loop begun
  resp,      \* per invocation: what lambda_handler returned
  calls,     \* per invocation: the store calls made so far, with results
  fresh,     \* per invocation: its candidate was not stored when generated
  lost,      \* per invocation: the candidates it generated while they were
             \* not stored and found stored by another request at put_item
  resolved   \* the redirects answered so far: path and Location of each 302

vars ==
  <<table, pc, event, handler, long_url, short_id, attempt, resp, calls, fresh,
    lost, resolved>>

\* short_id = None, line 78
NoShortId == <<>>

Call(op, result) == [op |-> op, result |-> result]

(***************************************************************************)
(* The store.                                                              *)
(***************************************************************************)
\* what a store call can fail with, other than the condition of put_item
StoreFaults ==
  { ClientError("ProvisionedThroughputExceededException", "Rate exceeded"),
    Exc("EndpointConnectionError", "Could not connect to the endpoint URL") }

\* the condition evaluated without regard to the stored item
attribute_always(t, key) == TRUE

\* ConditionExpression='attribute_not_exists(short_id)', line 89
attribute_not_exists(t, key) == key \notin DOMAIN t

\* a write that never reaches the table
put_lost(t, item) == t

\* a write that leaves the new item alone in the table
put_alone(t, item) == [k \in {item.short_id} |-> item]

\* the table after put_item(Item=item)
put(t, item) ==
  [k \in DOMAIN t \cup {item.short_id} |->
     IF k = item.short_id THEN item ELSE t[k]]

\* table.get_item(Key={'short_id': key}): the response dict
get_item(t, key) == IF key \in DOMAIN t THEN [Item |-> t[key]] ELSE EmptyDict

(***************************************************************************)
(* lambda_handler, lines 31-63.                                            *)
(***************************************************************************)
\* line 38
http_method(ev) ==
  DictGet(DictGet(DictGet(ev, "requestContext", EmptyDict), "http", EmptyDict),
          "method", None)

\* line 39
raw_path(ev) == DictGet(ev, "rawPath", <<"/">>)

\* line 47
path_short_id(path) == lstrip_slash(path)

\* a router that sends every request for '/shorten' to Create
Route_path_only(ev) ==
  IF raw_path(ev) = SHORTEN_PATH THEN "shorten"
  ELSE IF http_method(ev) = "GET" /\ startswith_slash(raw_path(ev))
  THEN IF path_short_id(raw_path(ev)) # <<>> THEN "redirect" ELSE "no_short_id"
  ELSE "unsupported"

\* lines 42-63: which branch handles the event
Route(ev) ==
  IF http_method(ev) = "POST" /\ raw_path(ev) = SHORTEN_PATH THEN "shorten"
  ELSE IF http_method(ev) = "GET" /\ startswith_slash(raw_path(ev))
  THEN IF path_short_id(raw_path(ev)) # <<>> THEN "redirect" ELSE "no_short_id"
  ELSE "unsupported"

\* lines 43 and 49: the function whose code answers the request
Handler(route) ==
  CASE route = "shorten" -> "handle_shorten_request"
    [] route = "redirect" -> "handle_redirect_request"
    [] OTHER -> "lambda_handler"

\* lines 52-56
NO_SHORT_ID_RESPONSE ==
  Response(404, JSON_HEADERS,
           json_dumps_message("Not Found. Please provide a short ID."))

\* lines 59-63
UNSUPPORTED_RESPONSE ==
  Response(400, JSON_HEADERS, json_dumps_message("Unsupported method or path."))

(***************************************************************************)
(* handle_shorten_request, lines 65-138.                                   *)
(***************************************************************************)
\* lines 72-76
MISSING_URL_RESPONSE ==
  Response(400, JSON_HEADERS,
           json_dumps_message("Missing \"url\" in request body."))

\* a presence test that lets the empty string through
url_missing_if_none(url) == url = None

\* `if not long_url`, line 71
url_missing(url) == ~Truthy(url)

\* lines 68-76: the response returned, the exception raised, or the long_url
\* the retry loop starts with
shorten_validate(ev) ==
  LET parsed == json_loads(DictGet(ev, "body", "{}")) IN
  IF "raise" \in DOMAIN parsed THEN [raise |-> parsed.raise]
  ELSE IF parsed.value.type # "dict"
  THEN [raise |-> Exc("AttributeError",
          "'" \o parsed.value.type \o "' object has no attribute 'get'")]
  ELSE LET url == DictGet(parsed.value.items, "url", None) IN
       IF url_missing(url) THEN [return |-> MISSING_URL_RESPONSE]
       ELSE [long_url |-> url]

\* a loop that gives up one iteration early
max_retries_short == 5 - 1

\* a loop that runs one iteration more
max_retries_long == 5 + 1

\* max_retries, line 79
max_retries == 5

\* line 102
EXHAUSTED == Exc("Exception",
                 "Could not generate a unique short ID after multiple retries.")

\* a response built from the first id of the alphabet, not from sid
shorten_success_stale(sid) ==
  Response(200, JSON_HEADERS @@ CORS_HEADERS,
           json_dumps_short(join([k \in 1 .. Len(sid) |-> characters[1]]),
                            BASE_URL \o "/"
                              \o join([k \in 1 .. Len(sid) |-> characters[1]])))

\* lines 104-116
shorten_success(sid) ==
  Response(200, JSON_HEADERS @@ CORS_HEADERS,
           json_dumps_short(join(sid), BASE_URL \o "/" \o join(sid)))

\* the except clauses without the final `except Exception`
shorten_except_narrow(exc) ==
  IF IsInstance(exc, "JSONDecodeError")
  THEN Response(400, JSON_HEADERS,
                json_dumps_message("Invalid JSON in request body."))
  ELSE IF IsInstance(exc, "ClientError")
  THEN Response(500, JSON_HEADERS,
                json_dumps_message("Database error: "
                                     \o exc.response.Error.Message))
  ELSE Escapes(exc)

\* the except clauses, lines 118-138, in their order
shorten_except(exc) ==
  IF IsInstance(exc, "JSONDecodeError")
  THEN Response(400, JSON_HEADERS,
                json_dumps_message("Invalid JSON in request body."))
  ELSE IF IsInstance(exc, "ClientError")
  THEN Response(500, JSON_HEADERS,
                json_dumps_message("Database error: "
                                     \o exc.response.Error.Message))
  ELSE IF IsInstance(exc, "Exception")
  THEN Response(500, JSON_HEADERS,
                json_dumps_message("Internal server error: " \o exc.message))
  ELSE Escapes(exc)

\* a handler that retries on every ClientError
is_collision_any(exc) == IsInstance(exc, "ClientError")

\* line 95: the ClientError that makes the loop continue
is_collision(exc) ==
  /\ IsInstance(exc, "ClientError")
  /\ exc.response.Error.Code = "ConditionalCheckFailedException"

(***************************************************************************)
(* handle_redirect_request, lines 140-194.                                 *)
(***************************************************************************)
\* `if item and 'long_url' in item`, lines 144-146
redirect_found(response) ==
  "Item" \in DOMAIN response /\ "long_url" \in DOMAIN response.Item

\* lines 146-170
redirect_response(response) ==
  IF redirect_found(response)
  THEN Response(302, ("Location" :> response.Item.long_url) @@ CORS_HEADERS, "")
  ELSE Response(404, JSON_HEADERS @@ CORS_HEADERS,
                json_dumps_message("Short URL not found."))

\* the except clauses, lines 171-194
redirect_except(exc) ==
  IF IsInstance(exc, "ClientError")
  THEN Response(500, REDIRECT_ERROR_HEADERS,
                json_dumps_message("Database error: "
                                     \o exc.response.Error.Message))
  ELSE IF IsInstance(exc, "Exception")
  THEN Response(500, REDIRECT_ERROR_HEADERS,
                json_dumps_message("Internal server error: " \o exc.message))
  ELSE Escapes(exc)


(***************************************************************************)
(* The state machine.                                                      *)
(***************************************************************************)
Init ==
  /\ table = <<>>
  /\ pc = [i \in Invocations |-> "idle"]
  /\ event = [i \in Invocations |-> EmptyDict]
  /\ handler = [i \in Invocations |-> None]
  /\ long_url = [i \in Invocations |-> None]
  /\ short_id = [i \in Invocations |-> NoShortId]
  /\ attempt = [i \in Invocations |-> 0]
  /\ resp = [i \in Invocations |-> NoResponse]
  /\ calls = [i \in Invocations |-> <<>>]
  /\ fresh = [i \in Invocations |-> FALSE]
  /\ lost = [i \in Invocations |-> {}]
  /\ resolved = {}

\* the handler of invocation i returns r: its locals are gone
Return(i, r) ==
  /\ resp' = [resp EXCEPT ![i] = r]
  /\ pc' = [pc EXCEPT ![i] = "done"]
  /\ long_url' = [long_url EXCEPT ![i] = None]
  /\ short_id' = [short_id EXCEPT ![i] = NoShortId]
  /\ attempt' = [attempt EXCEPT ![i] = 0]
  /\ fresh' = [fresh EXCEPT ![i] = FALSE]

\* the name under which calls records an exception
ResultOf(exc) ==
  IF exc.type = "ClientError" THEN exc.response.Error.Code ELSE exc.type

\* lines 80-84: invocation i begins an iteration of the loop with the
\* candidate sid and stands before its put_item
Iterate(i, sid) ==
  /\ short_id' = [short_id EXCEPT ![i] = sid]
  /\ attempt' = [attempt EXCEPT ![i] = @ + 1]
  /\ pc' = [pc EXCEPT ![i] = "put_item"]
  /\ fresh' = [fresh EXCEPT ![i] = sid \notin DOMAIN table]

\* lambda_handler up to its first store call: lines 36-63, and lines 67-81
\* of handle_shorten_request when the event is routed there
Receive(i) ==
  /\ pc[i] = "idle"
  /\ \E ev \in Events :
       /\ event' = [event EXCEPT ![i] = ev]
       /\ handler' = [handler EXCEPT ![i] = Handler(Route(ev))]
       /\ LET route == Route(ev)
              v == shorten_validate(ev)
          IN  CASE route = "shorten" /\ "long_url" \in DOMAIN v ->
                     /\ long_url' = [long_url EXCEPT ![i] = v.long_url]
                     /\ \E sid \in generate_short_id(DEFAULT_LENGTH) :
                          Iterate(i, sid)
                     /\ UNCHANGED resp
                [] route = "shorten" /\ "return" \in DOMAIN v ->
                     /\ Return(i, v.return)
                [] route = "shorten" /\ "raise" \in DOMAIN v ->
                     /\ Return(i, shorten_except(v.raise))
                [] route = "redirect" ->
                     /\ short_id' =
                          [short_id EXCEPT ![i] = path_short_id(raw_path(ev))]
                     /\ pc' = [pc EXCEPT ![i] = "get_item"]
                     /\ UNCHANGED <<resp, long_url, attempt, fresh>>
                [] route = "no_short_id" ->
                     /\ Return(i, NO_SHORT_ID_RESPONSE)
                [] OTHER ->
                     /\ Return(i, UNSUPPORTED_RESPONSE)
  /\ UNCHANGED <<table, calls, lost, resolved>>

\* lines 84-92, then 104-116: the item is stored and 200 is returned
PutItemStored(i) ==
  /\ table' = put(table, [short_id |-> short_id[i], long_url |-> long_url[i]])
  /\ calls' = [calls EXCEPT ![i] = Append(@, Call("put_item", "ok"))]
  /\ Return(i, shorten_success(short_id[i]))
  /\ UNCHANGED lost

\* lines 93-102, then 125-138: put_item raised exc.  A collision continues
\* the loop with a new candidate, or ends it by line 102 when max_retries
\* iterations were made; any other exception is re-raised
PutItemRaised(i, exc) ==
  /\ calls' = [calls EXCEPT ![i] = Append(@, Call("put_item", ResultOf(exc)))]
  /\ lost' = [lost EXCEPT
                ![i] = IF ResultOf(exc) = "ConditionalCheckFailedException"
                          /\ fresh[i]
                       THEN @ \cup {short_id[i]}
                       ELSE @]
  /\ IF is_collision(exc)
     THEN IF attempt[i] < max_retries
          THEN /\ \E sid \in generate_short_id(DEFAULT_LENGTH) : Iterate(i, sid)
               /\ UNCHANGED <<resp, long_url>>
          ELSE Return(i, shorten_except(EXHAUSTED))
     ELSE Return(i, shorten_except(exc))
  /\ UNCHANGED table

\* line 84: the conditional put_item and what follows it
PutItem(i) ==
  /\ pc[i] = "put_item"
  /\ \/ /\ attribute_not_exists(table, short_id[i])
        /\ PutItemStored(i)
     \/ /\ ~attribute_not_exists(table, short_id[i])
        /\ PutItemRaised(i, ClientError("ConditionalCheckFailedException",
                                        "The conditional request failed"))
     \/ \E f \in StoreFaults : PutItemRaised(i, f)
  /\ UNCHANGED <<event, handler, resolved>>

\* line 143 and what follows it
GetItem(i) ==
  /\ pc[i] = "get_item"
  /\ \/ /\ calls' = [calls EXCEPT ![i] = Append(@, Call("get_item", "ok"))]
        /\ Return(i, redirect_response(get_item(table, short_id[i])))
        /\ resolved' =
             IF redirect_found(get_item(table, short_id[i]))
             THEN resolved \cup
                    {[path |-> raw_path(event[i]),
                      location |-> get_item(table, short_id[i]).Item.long_url]}
             ELSE resolved
     \/ \E f \in StoreFaults :
          /\ calls' = [calls EXCEPT
                         ![i] = Append(@, Call("get_item", ResultOf(f)))]
          /\ Return(i, redirect_except(f))
          /\ UNCHANGED resolved
  /\ UNCHANGED <<table, event, handler, lost>>

Next ==
  \E i \in Invocations :
    \/ Receive(i)
    \/ PutItem(i)
    \/ GetItem(i)

Spec == Init /\ [][Next]_vars

\* The table outlives the invocations: lines 15-19 bind to a table that
\* holds what earlier requests stored.  Here an earlier Create has stored
\* STORED_ID with URL_A and an earlier GET /STORED_ID was answered 302.
STORED_ID == [k \in 1 .. DEFAULT_LENGTH |-> characters[1]]

InitStored ==
  /\ table = [s \in {STORED_ID} |-> [short_id |-> s, long_url |-> URL_A]]
  /\ pc = [i \in Invocations |-> "idle"]
  /\ event = [i \in Invocations |-> EmptyDict]
  /\ handler = [i \in Invocations |-> None]
  /\ long_url = [i \in Invocations |-> None]
  /\ short_id = [i \in Invocations |-> NoShortId]
  /\ attempt = [i \in Invocations |-> 0]
  /\ resp = [i \in Invocations |-> NoResponse]
  /\ calls = [i \in Invocations |-> <<>>]
  /\ fresh = [i \in Invocations |-> FALSE]
  /\ lost = [i \in Invocations |-> {}]
  /\ resolved = {[path |-> <<"/">> \o STORED_ID, location |-> URL_A]}

SpecStored == InitStored /\ [][Next]_vars

\* an invocation whose store call is outstanding gets its answer
FairSpec ==
  Spec /\ \A i \in Invocations : WF_vars(PutItem(i) \/ GetItem(i))


(***************************************************************************)
(* Vocabulary of the properties: requests and responses as a client sees   *)
(* them.                                                                   *)
(***************************************************************************)
Done(i) == pc[i] = "done"

\* the method and path of the request, read off the event itself
RequestMethod(i) ==
  IF "requestContext" \in DOMAIN event[i]
  THEN event[i].requestContext.http.method
  ELSE None

RequestPath(i) ==
  IF "rawPath" \in DOMAIN event[i] THEN event[i].rawPath ELSE <<"/">>

\* invocation i was given POST /shorten with the body text b
IsShortenOf(i, b) ==
  /\ pc[i] # "idle"
  /\ RequestMethod(i) = "POST"
  /\ RequestPath(i) = SHORTEN_PATH
  /\ "body" \in DOMAIN event[i]
  /\ event[i].body = b

\* invocation i was given GET /s
IsGetOf(i, s) ==
  /\ pc[i] # "idle"
  /\ RequestMethod(i) = "GET"
  /\ RequestPath(i) = <<"/">> \o s

\* the url of the request body of a Create that passed validation
UrlOf(i) == CHOOSE u \in Urls : event[i].body = UrlBody(u)

\* invocation i has answered with this status and this JSON message
Answered(i, status, message) ==
  /\ Done(i)
  /\ "statusCode" \in DOMAIN resp[i]
  /\ resp[i].statusCode = status
  /\ resp[i].body = "{\"message\": \"" \o message \o "\"}"

\* invocation i has answered 200 with short_id s
Issued(i, s) ==
  /\ Done(i)
  /\ "statusCode" \in DOMAIN resp[i]
  /\ resp[i].statusCode = 200
  /\ resp[i].body =
       "{\"short_id\": \"" \o join(s) \o "\", \"short_url\": \""
         \o BASE_URL \o "/" \o join(s) \o "\"}"

\* the step in which invocation i gets the answer of its store call
StoreCallReturns(i) == Len(calls'[i]) = Len(calls[i]) + 1

LastCall(i) == calls[i][Len(calls[i])]

COLLISION == "ConditionalCheckFailedException"

NoStoreFault(p) ==
  \A k \in 1 .. Len(calls[p]) : calls[p][k].result \in {"ok", COLLISION}

C3_MappingImmutable ==
  [][\A s \in DOMAIN table :
       /\ table[s].short_id = s
       /\ s \in DOMAIN table'
       /\ table'[s] = table[s]]_vars

\* a Create collided with a stored id, and the id still maps to the URL of
\* the request that stored it
C3_Witness ==
  \E p, q \in Invocations, c \in ShortIds :
    /\ p # q
    /\ Issued(p, c)
    /\ calls[q] # <<>>
    /\ calls[q][1].result = COLLISION
    /\ IsShortenOf(p, UrlBody(URL_A))
    /\ IsShortenOf(q, UrlBody(URL_B))
    /\ table[c].long_url = URL_A


(***************************************************************************)
(* C4.  Collision exhaustion: a Create request all of whose conditional    *)
(* inserts met the uniqueness violation has made exactly 5 of them when it *)
(* answers, answers 500 with the internal-error message, and has stored    *)
(* nothing; while it runs it never makes a sixth.                          *)
(***************************************************************************)
AllCollided(i) ==
  /\ calls[i] # <<>>
  /\ \A k \in 1 .. Len(calls[i]) :
       calls[i][k] = [op |-> "put_item", result |-> COLLISION]

C4_CollisionExhaustion ==
  \A i \in Invocations :
    AllCollided(i) =>
      /\ Len(calls[i]) <= 5
      /\ Done(i) =>
           /\ Len(calls[i]) = 5
           /\ Answered(i, 500,
                "Internal server error: Could not generate a unique short ID after multiple retries.")
           /\ \A s \in DOMAIN table :
                \E j \in Invocations \ {i} : Issued(j, s)

C4_Witness ==
  \E i \in Invocations :
    /\ AllCollided(i)
    /\ Done(i)
    /\ Len(calls[i]) = 5
    /\ resp[i].statusCode = 500

(***************************************************************************)
(* C5.  Input rejection without write: POST /shorten with a body that is   *)
(* not JSON is answered 400 'Invalid JSON in request body.'; with a JSON   *)
(* object that has no url field, or an empty url, it is answered 400       *)
(* 'Missing "url" in request body.'; neither makes a store call, and the   *)
(* table holds only what other requests stored.                            *)
(***************************************************************************)
NotJsonBodies == {"", BODY_TRUNCATED}

NoUrlBodies == {BODY_EMPTY_OBJECT, BODY_OTHER_FIELD, "{\"url\": \"\"}"}

C6_UnknownIdNotFound ==
  [][\A q \in Invocations :
       ( /\ handler[q] = "handle_redirect_request"
         /\ StoreCallReturns(q)
         /\ calls'[q][Len(calls'[q])].result = "ok"
         /\ \A p \in Invocations : ~Issued(p, Tail(RequestPath(q))) )
       => /\ pc'[q] = "done"
          /\ resp'[q].statusCode = 404
          /\ resp'[q].body = "{\"message\": \"Short URL not found.\"}"]_vars

\* GET //s is answered 302 with the URL stored under s, although no Create
\* has stored the id /s
C6_Witness ==
  \E p, q \in Invocations, s \in ShortIds :
    /\ Issued(p, s)
    /\ pc[q] # "idle"
    /\ RequestMethod(q) = "GET"
    /\ RequestPath(q) = <<"/", "/">> \o s
    /\ Done(q)
    /\ resp[q].statusCode = 302
    /\ resp[q].headers["Location"] = UrlOf(p)

(***************************************************************************)
(* C7.  Routing classifies (method, path): POST /shorten goes to Create;   *)
(* GET of a path that begins with "/" and has something after that "/"     *)
(* goes to Resolve; GET / is answered 404 'Not Found. Please provide a     *)
(* short ID.'; everything else is answered 400 'Unsupported method or      *)
(* path.'.                                                                 *)
(***************************************************************************)
C7_RoutingClassification ==
  \A i \in Invocations :
    pc[i] # "idle" =>
      LET m == RequestMethod(i)
          p == RequestPath(i)
      IN  IF m = "POST" /\ p = SHORTEN_PATH
          THEN handler[i] = "handle_shorten_request"
          ELSE IF m = "GET" /\ Len(p) >= 1 /\ p[1] = "/" /\ Tail(p) # <<>>
          THEN handler[i] = "handle_redirect_request"
          ELSE IF m = "GET" /\ p = <<"/">>
          THEN /\ handler[i] = "lambda_handler"
               /\ Answered(i, 404, "Not Found. Please provide a short ID.")
          ELSE /\ handler[i] = "lambda_handler"
               /\ Answered(i, 400, "Unsupported method or path.")

\* GET // has a remainder after its first "/", and is answered by the router
C7_Witness ==
  \E i \in Invocations :
    /\ RequestMethod(i) = "GET"
    /\ RequestPath(i) = <<"/", "/">>
    /\ handler[i] = "lambda_handler"
    /\ Answered(i, 404, "Not Found. Please provide a short ID.")

(***************************************************************************)
(* C8.  Nothing escapes: whatever the request and whatever the store       *)
(* answers, the handler ends by returning a response dict with a status    *)
(* code among 200, 302, 400, 404, 500; no exception leaves lambda_handler. *)
(***************************************************************************)
C8_NothingEscapes ==
  \A i \in Invocations :
    Done(i) =>
      /\ DOMAIN resp[i] = {"statusCode", "headers", "body"}
      /\ resp[i].statusCode \in {200, 302, 400, 404, 500}

\* unexpected exceptions of both kinds were turned into responses: a body
\* that json.loads cannot take, and a store call that could not connect
C8_Witness ==
  \E i, j \in Invocations :
    /\ IsShortenOf(i, None)
    /\ Done(i)
    /\ resp[i].statusCode = 500
    /\ Done(j)
    /\ calls[j] # <<>>
    /\ LastCall(j).result = "EndpointConnectionError"
    /\ resp[j].statusCode = 500

(***************************************************************************)
(* C9.  Store errors are surfaced at once: a store call that fails with    *)
(* anything but the uniqueness violation is the last store call of its     *)
(* request, which answers 500 with a message carrying the error's message; *)
(* only a uniqueness violation of put_item is followed by another call.    *)
(***************************************************************************)
C9_StoreErrorsSurfaced ==
  \A i \in Invocations : \A k \in 1 .. Len(calls[i]) :
    /\ calls[i][k].result = "ProvisionedThroughputExceededException" =>
         /\ k = Len(calls[i])
         /\ Answered(i, 500, "Database error: Rate exceeded")
    /\ calls[i][k].result = "EndpointConnectionError" =>
         /\ k = Len(calls[i])
         /\ Answered(i, 500,
              "Internal server error: Could not connect to the endpoint URL")
    /\ k < Len(calls[i]) =>
         calls[i][k] = [op |-> "put_item", result |-> COLLISION]

\* a Create whose insert met a store error, and a Resolve whose lookup did
C9_Witness ==
  \E i, j \in Invocations :
    /\ calls[i] =
         <<[op |-> "put_item", result |-> "ProvisionedThroughputExceededException"]>>
    /\ resp[i].statusCode = 500
    /\ calls[j] =
         <<[op |-> "get_item", result |-> "ProvisionedThroughputExceededException"]>>
    /\ resp[j].statusCode = 500

(***************************************************************************)
(* C10.  Termination of Create: a Create request that has entered its      *)
(* retry loop makes at most 5 conditional inserts, leaves the loop only by *)
(* answering, answers 200 exactly when its last insert was stored and 500  *)
(* otherwise, and, scheduled fairly, does leave it: from some point on no  *)
(* request is in its loop.                                                 *)
(***************************************************************************)
InRetryLoop(i) == pc[i] = "put_item"

C10_CreateTerminates ==
  /\ [](\A i \in Invocations :
          /\ Len(calls[i]) <= 5
          /\ (Done(i) /\ calls[i] # <<>> /\ LastCall(i).op = "put_item") =>
               /\ resp[i].statusCode \in {200, 500}
               /\ resp[i].statusCode = 200 <=> LastCall(i).result = "ok")
  /\ [][\A i \in Invocations :
          (InRetryLoop(i) /\ ~InRetryLoop(i)') => Done(i)']_vars
  /\ <>[](\A i \in Invocations : ~InRetryLoop(i))

\* a Create that answered 200 on its fifth and last insert
C10_Witness ==
  \E i \in Invocations :
    /\ Done(i)
    /\ Len(calls[i]) = 5
    /\ LastCall(i).result = "ok"
    /\ resp[i].statusCode = 200

(***************************************************************************)
(* C11.  CORS on Resolve: every response of handle_redirect_request, 302,  *)
(* 404 and both 500s, carries Access-Control-Allow-Origin: *,              *)
(* Access-Control-Allow-Methods: POST, GET and                             *)
(* Access-Control-Allow-Headers: Content-Type, as the Create success       *)
(* response does.                                                          *)
(***************************************************************************)
HasCors(r) ==
  \A h \in DOMAIN CORS_HEADERS :
    h \in DOMAIN r.headers /\ r.headers[h] = CORS_HEADERS[h]

C11_CorsOnResolve ==
  \A i \in Invocations :
    (Done(i) /\ handler[i] = "handle_redirect_request") => HasCors(resp[i])

\* a Resolve whose lookup failed answered 500 without
\* Access-Control-Allow-Headers, while a Create answered 200 with it
C11_Witness ==
  \E i, j \in Invocations, s \in ShortIds :
    /\ IsGetOf(i, s)
    /\ Done(i)
    /\ LastCall(i).result = "ProvisionedThroughputExceededException"
    /\ resp[i].statusCode = 500
    /\ "Access-Control-Allow-Headers" \notin DOMAIN resp[i].headers
    /\ "Access-Allow-Headers" \in DOMAIN resp[i].headers
    /\ Done(j)
    /\ resp[j].statusCode = 200
    /\ HasCors(resp[j])

(***************************************************************************)
(* C12.  Create success response: in the step in which a Create answers    *)
(* 200, the short_id of the response is the key its put_item has just      *)
(* added to the table (with the request's long_url), it is 6 characters    *)
(* of the alphanumeric alphabet, and short_url is BASE_URL, "/" and that   *)
(* short_id.                                                               *)
(***************************************************************************)
Alphanumeric == { characters[k] : k \in 1 .. Len(characters) }

C12_CreateSuccessResponse ==
  [][\A i \in Invocations :
       (pc[i] = "put_item" /\ pc'[i] = "done" /\ resp'[i].statusCode = 200) =>
         LET s == short_id[i] IN
           /\ s \notin DOMAIN table
           /\ DOMAIN table' = DOMAIN table \cup {s}
           /\ table'[s] = [short_id |-> s, long_url |-> long_url[i]]
           /\ calls'[i][Len(calls'[i])] = [op |-> "put_item", result |-> "ok"]
           /\ Len(s) = 6
           /\ \A k \in 1 .. Len(s) : s[k] \in Alphanumeric
           /\ Cardinality(Alphanumeric) = 62
           /\ resp'[i].body =
                "{\"short_id\": \"" \o join(s) \o "\", \"short_url\": \""
                  \o "https://example.com/" \o join(s) \o "\"}"]_vars

\* a Create whose first candidate collided answered 200 with the id of its
\* second insert
C12_Witness ==
  \E i \in Invocations, s \in ShortIds :
    /\ Issued(i, s)
    /\ calls[i] = << [op |-> "put_item", result |-> COLLISION],
                     [op |-> "put_item", result |-> "ok"] >>
    /\ table[s].long_url = UrlOf(i)

(***************************************************************************)
(* C13.  Reads and routing do not write: a step of a request that is not   *)
(* POST /shorten, a GET of any path or a request the router answers        *)
(* itself, leaves the table as it was; a step that changes the table is a  *)
(* step of a POST /shorten in handle_shorten_request.                      *)
(***************************************************************************)
Acts(i) == pc'[i] # pc[i] \/ calls'[i] # calls[i]

IsPostShorten(ev) ==
  /\ "requestContext" \in DOMAIN ev
  /\ ev.requestContext.http.method = "POST"
  /\ "rawPath" \in DOMAIN ev
  /\ ev.rawPath = SHORTEN_PATH

C13_ReadsDoNotWrite ==
  [][/\ \A i \in Invocations :
          (Acts(i) /\ ~IsPostShorten(event'[i])) => table' = table
     /\ table' # table =>
          \E i \in Invocations :
            /\ Acts(i)
            /\ IsPostShorten(event[i])
            /\ handler[i] = "handle_shorten_request"]_vars

\* a PUT /shorten with a valid body, answered by the router, and a GET that
\* looked its id up have run: the table is still empty
C13_Witness ==
  \E p, q \in Invocations :
    /\ Done(p) /\ Done(q)
    /\ RequestMethod(p) = "PUT"
    /\ event[p].body = UrlBody(URL_A)
    /\ resp[p].statusCode = 400
    /\ RequestMethod(q) = "GET"
    /\ calls[q] = << [op |-> "get_item", result |-> "ok"] >>
    /\ resp[q].statusCode = 404
    /\ table = <<>>

(***************************************************************************)
(* C14.  Status partition of POST /shorten: a request whose body is        *)
(* absent, null, not JSON, JSON that is no object, or an object without a  *)
(* non-empty url is answered 400 and makes no store call; a request that   *)
(* is answered 500 has made a put_item that failed, with a store error or  *)
(* with the fifth of five uniqueness violations.                           *)
(***************************************************************************)
InvalidBodies ==
  { None, "", BODY_TRUNCATED, BODY_LIST, BODY_EMPTY_OBJECT, BODY_OTHER_FIELD,
    "{\"url\": \"\"}" }

HasInvalidInput(i) ==
  "body" \in DOMAIN event[i] => event[i].body \in InvalidBodies

C14_StatusPartition ==
  \A i \in Invocations :
    (Done(i) /\ handler[i] = "handle_shorten_request") =>
      /\ HasInvalidInput(i) => (resp[i].statusCode = 400 /\ calls[i] = <<>>)
      /\ resp[i].statusCode = 500 =>
           /\ calls[i] # <<>>
           /\ LastCall(i).op = "put_item"
           /\ LastCall(i).result # "ok"
           /\ LastCall(i).result = COLLISION => Len(calls[i]) = 5

\* a null body and a JSON list were each answered 500 without a store call
C14_Witness ==
  \E i, j \in Invocations :
    /\ IsShortenOf(i, None)
    /\ Answered(i, 500,
         "Internal server error: the JSON object must be str, bytes or bytearray, not NoneType")
    /\ calls[i] = <<>>
    /\ IsShortenOf(j, BODY_LIST)
    /\ Answered(j, 500,
         "Internal server error: 'list' object has no attribute 'get'")
    /\ calls[j] = <<>>

(***************************************************************************)
(* C15.  Global uniqueness of issued ids: no two requests that answered    *)
(* 200 returned the same short_id; every id returned is a key of the       *)
(* table, and every item of the table is stored under its own short_id,    *)
(* so the table holds one Mapping per short_id.                            *)
(***************************************************************************)
Succeeded(i) ==
  Done(i) /\ "statusCode" \in DOMAIN resp[i] /\ resp[i].statusCode = 200

C15_GlobalUniqueness ==
  /\ \A p, q \in Invocations :
       (Succeeded(p) /\ Succeeded(q) /\ resp[p].body = resp[q].body) => p = q
  /\ \A p \in Invocations :
       Succeeded(p) => \E s \in DOMAIN table : Issued(p, s)
  /\ \A s \in DOMAIN table : table[s].short_id = s

\* two Creates have answered 200, the second after colliding with the id of
\* the first, and the table holds their two ids
C15_Witness ==
  \E p, q \in Invocations, c, d \in ShortIds :
    /\ Issued(p, c)
    /\ Issued(q, d)
    /\ Len(calls[p]) = 1
    /\ Len(calls[q]) = 2
    /\ DOMAIN table = {c, d}
    /\ Cardinality(DOMAIN table) = 2

(***************************************************************************)
(* C16.  One record per successful Create: the items of the table are, one *)
(* for one, the requests that answered 200, each item holding the id that  *)
(* request returned and the url it was given; a step adds at most one      *)
(* item, and the request that adds it answers 200 in that step; a request  *)
(* that answered 400 or 500 has no item.                                   *)
(***************************************************************************)
C16_OneRecordPerCreate ==
  /\ [](/\ Cardinality(DOMAIN table)
             = Cardinality({i \in Invocations : Succeeded(i)})
        /\ \A s \in DOMAIN table :
             \E i \in Invocations :
               /\ Issued(i, s)
               /\ IsPostShorten(event[i])
               /\ table[s] = [short_id |-> s, long_url |-> UrlOf(i)]
        /\ \A i \in Invocations :
             (Done(i) /\ resp[i].statusCode \in {400, 500}) =>
               \A s \in DOMAIN table : ~Issued(i, s))
  /\ [][table' # table =>
          \E i \in Invocations :
            /\ pc[i] = "put_item"
            /\ Succeeded(i)'
            /\ \E s \in ShortIds \ DOMAIN table :
                 /\ DOMAIN table' = DOMAIN table \cup {s}
                 /\ \A k \in DOMAIN table : table'[k] = table[k]]_vars

\* of two Creates one answered 200, the other collided with its id and then
\* met a store error: the table holds one item
C16_Witness ==
  \E p, q \in Invocations, s \in ShortIds :
    /\ Issued(p, s)
    /\ IsShortenOf(q, UrlBody(URL_B))
    /\ Done(q)
    /\ calls[q] =
         << [op |-> "put_item", result |-> COLLISION],
            [op |-> "put_item", result |-> "ProvisionedThroughputExceededException"] >>
    /\ resp[q].statusCode = 500
    /\ DOMAIN table = {s}

(***************************************************************************)
(* C17.  Short-id extraction: for a GET whose path begins with "/", the    *)
(* short_id handed to handle_redirect_request is the path without its      *)
(* first character, and 'Not Found. Please provide a short ID.' is the     *)
(* answer exactly when the path is "/".                                    *)
(***************************************************************************)
C17_ShortIdExtraction ==
  \A i \in Invocations :
    (pc[i] # "idle" /\ RequestMethod(i) = "GET"
       /\ startswith_slash(RequestPath(i))) =>
      /\ pc[i] = "get_item" => short_id[i] = Tail(RequestPath(i))
      /\ Answered(i, 404, "Not Found. Please provide a short ID.")
           <=> RequestPath(i) = <<"/">>

\* the lookup of GET //aaaaaa is about to be made with the key aaaaaa
C17_Witness ==
  \E i \in Invocations, s \in ShortIds :
    /\ RequestMethod(i) = "GET"
    /\ RequestPath(i) = <<"/", "/">> \o s
    /\ pc[i] = "get_item"
    /\ short_id[i] = s
    /\ short_id[i] # Tail(RequestPath(i))

(***************************************************************************)
(* C18.  Stable resolution: once a GET of a path has been answered 302     *)
(* with Location u, every later GET of that path whose lookup does not     *)
(* fail is answered 302 with Location u, never 404 and never another       *)
(* Location, whatever Creates and GETs run in between.                     *)
(***************************************************************************)
C18_StableResolution ==
  [][\A q \in Invocations :
       ( /\ StoreCallReturns(q)
         /\ calls'[q][Len(calls'[q])] = [op |-> "get_item", result |-> "ok"] )
       => \A e \in resolved :
            e.path = RequestPath(q) =>
              /\ resp'[q].statusCode = 302
              /\ resp'[q].headers["Location"] = e.location]_vars

\* after the earlier 302 a Create collided with the stored id and stored
\* another one, and a GET of the stored id was again answered 302 with URL_A
C18_Witness ==
  \E p, q \in Invocations, d \in ShortIds \ {STORED_ID} :
    /\ IsShortenOf(p, UrlBody(URL_B))
    /\ Issued(p, d)
    /\ calls[p][1].result = COLLISION
    /\ IsGetOf(q, STORED_ID)
    /\ Done(q)
    /\ resp[q].statusCode = 302
    /\ resp[q].headers["Location"] = URL_A
    /\ [path |-> <<"/">> \o STORED_ID, location |-> URL_A] \in resolved
    /\ DOMAIN table = {STORED_ID, d}

=============================================================================
